---- MODULE Spec2Model ----
(***************************************************************************)
(* Model of doParseTunnelConfig (client/go/outline/parse.go).              *)
(*                                                                         *)
(* Texts are sequences of one-character strings.  A YAML node is a record  *)
(*   [kind |-> "null"]                                                     *)
(*   [kind |-> "str", s |-> text, q |-> quoted?]                           *)
(*   [kind |-> "map", flow |-> flow style?, pairs |-> <<[k, kq, v], ...>>] *)
(* which keeps the style of the node, as an ast.Node does.                 *)
(***************************************************************************)
EXTENDS Integers, Sequences, FiniteSets, TLC

\* ------------------------------------------------------------------------
\* Bounds of the model
\* ------------------------------------------------------------------------
\* longest run of whitespace put before and after the input
MaxPad == 1
\* longest first-hop value the collaborator reports (0 = the empty string)
MaxHop == 1
\* number of surrounding top-level keys added to a structured document
MaxExtra == 1

\* ------------------------------------------------------------------------
\* Literals of the source
\* ------------------------------------------------------------------------
Nil == [kind |-> "nil"]

SsPrefix == <<"s", "s", ":", "/", "/">>
KeyTransport == <<"t", "r", "a", "n", "s", "p", "o", "r", "t">>
KeyError == <<"e", "r", "r", "o", "r">>
KeyMessage == <<"m", "e", "s", "s", "a", "g", "e">>
KeyDetails == <<"d", "e", "t", "a", "i", "l", "s">>
NullWord == <<"n", "u", "l", "l">>

InvalidConfig == "InvalidConfig"
ProviderError == "ProviderError"
InternalError == "InternalError"

\* ------------------------------------------------------------------------
\* Text helpers
\* ------------------------------------------------------------------------
\* unicode.IsSpace on the characters of the model's alphabet
IsSpace(c) == c \in {" ", "\n", "\t", "\r"}

RECURSIVE TrimLeft(_)
TrimLeft(t) ==
    IF t # <<>> /\ IsSpace(Head(t)) THEN TrimLeft(Tail(t)) ELSE t

RECURSIVE TrimRight(_)
TrimRight(t) ==
    IF t # <<>> /\ IsSpace(t[Len(t)]) THEN TrimRight(SubSeq(t, 1, Len(t) - 1)) ELSE t

\* strings.TrimSpace
TrimSpace(t) == TrimRight(TrimLeft(t))

\* strings.HasPrefix
HasPrefix(t, p) == Len(t) >= Len(p) /\ SubSeq(t, 1, Len(p)) = p

Spaces(n) == [i \in 1..n |-> " "]

RECURSIVE Join(_, _)
\* concatenation of the texts of ts, sep between them
Join(ts, sep) ==
    IF ts = <<>> THEN <<>>
    ELSE IF Len(ts) = 1 THEN ts[1]
    ELSE ts[1] \o sep \o Join(Tail(ts), sep)

\* ------------------------------------------------------------------------
\* YAML nodes and their text form
\* ------------------------------------------------------------------------
NullNode == [kind |-> "null"]
Str(s, q) == [kind |-> "str", s |-> s, q |-> q]
Map(flow, pairs) == [kind |-> "map", flow |-> flow, pairs |-> pairs]
Pair(k, kq, v) == [k |-> k, kq |-> kq, v |-> v]

Quote(s, q) == IF q THEN <<"\"">> \o s \o <<"\"">> ELSE s

RECURSIVE NodeFlowText(_, _)
\* a node in flow style; sp: a space follows ':' and ','
NodeFlowText(v, sp) ==
    LET gap == IF sp THEN <<" ">> ELSE <<>> IN
    CASE v.kind = "null" -> NullWord
      [] v.kind = "str" -> Quote(v.s, v.q)
      [] v.kind = "map" ->
            <<"{">> \o
            Join([i \in 1..Len(v.pairs) |->
                    Quote(v.pairs[i].k, v.pairs[i].kq) \o <<":">> \o gap
                    \o NodeFlowText(v.pairs[i].v, sp)],
                 <<",">> \o gap)
            \o <<"}">>

RECURSIVE NodeBlockText(_, _, _)
\* a block mapping at the given indentation; flow children are written with
\* the spacing sp
NodeBlockText(v, indent, sp) ==
    Join([i \in 1..Len(v.pairs) |->
            LET p == v.pairs[i] IN
            Spaces(indent) \o Quote(p.k, p.kq) \o <<":">> \o
            ( CASE p.v.kind = "null" -> <<>>
                [] p.v.kind = "str" -> <<" ">> \o Quote(p.v.s, p.v.q)
                [] p.v.kind = "map" /\ p.v.flow -> <<" ">> \o NodeFlowText(p.v, sp)
                [] p.v.kind = "map" /\ ~p.v.flow ->
                       <<"\n">> \o NodeBlockText(p.v, indent + 2, sp) )],
         <<"\n">>)

\* the text of a node, in the node's own style
NodeText(v, sp) ==
    IF v.kind = "map" /\ ~v.flow THEN NodeBlockText(v, 0, sp) ELSE NodeFlowText(v, sp)

\* ------------------------------------------------------------------------
\* The YAML reader: flow (JSON-like) mappings and block mappings of
\* "key: value" lines nested by indentation
\* ------------------------------------------------------------------------
Fail == [ok |-> FALSE, v |-> NullNode, pos |-> 0]
Ok(v, pos) == [ok |-> TRUE, v |-> v, pos |-> pos]

\* the character at i, "" past the end
At(t, i) == IF i \in 1..Len(t) THEN t[i] ELSE ""

MinOf(S) == CHOOSE x \in S : \A y \in S : x <= y

\* first index >= i that holds no whitespace
SkipSpaces(t, i) ==
    LET c == {j \in i..Len(t) : ~IsSpace(t[j])} IN
    IF c = {} THEN Len(t) + 1 ELSE MinOf(c)

\* first index >= i that holds one of chars
FindFrom(t, i, chars) ==
    LET c == {j \in i..Len(t) : t[j] \in chars} IN
    IF c = {} THEN Len(t) + 1 ELSE MinOf(c)

\* a double-quoted scalar starting at i
ScanQuoted(t, i) ==
    LET j == FindFrom(t, i + 1, {"\""}) IN
    IF At(t, i) # "\"" \/ j > Len(t) THEN Fail
    ELSE Ok(Str(SubSeq(t, i + 1, j - 1), TRUE), j + 1)

PlainNode(raw) == IF raw = <<>> \/ raw = NullWord THEN NullNode ELSE Str(raw, FALSE)

\* a scalar inside a flow mapping
ScanFlowScalar(t, i) ==
    IF At(t, i) = "\"" THEN ScanQuoted(t, i)
    ELSE LET j == FindFrom(t, i, {",", "}", ":", "{", "\n"}) IN
         Ok(PlainNode(TrimRight(SubSeq(t, i, j - 1))), j)

DistinctKeys(pairs) ==
    \A i, j \in 1..Len(pairs) : pairs[i].k = pairs[j].k => i = j

RECURSIVE ParseFlowMap(_, _)
RECURSIVE ParseFlowPairs(_, _, _)
RECURSIVE ParseFlowValue(_, _)
RECURSIVE FlowAfterKey(_, _, _)
RECURSIVE FlowAfterValue(_, _, _, _)
RECURSIVE FlowAfterPair(_, _, _)

ParseFlowValue(t, i) ==
    IF At(t, i) = "{" THEN ParseFlowMap(t, i) ELSE ScanFlowScalar(t, i)

\* the entries of a flow mapping from i on, up to and including its '}'
ParseFlowPairs(t, i, acc) == FlowAfterKey(t, ScanFlowScalar(t, i), acc)

\* ... after the key of an entry was read: its ':' and its value
FlowAfterKey(t, key, acc) ==
    IF ~key.ok \/ key.v.kind # "str" \/ At(t, SkipSpaces(t, key.pos)) # ":" THEN Fail
    ELSE FlowAfterValue(t, key.v,
                        ParseFlowValue(t, SkipSpaces(t, SkipSpaces(t, key.pos) + 1)), acc)

\* ... after the value of an entry was read
FlowAfterValue(t, key, val, acc) ==
    IF ~val.ok THEN Fail
    ELSE FlowAfterPair(t, SkipSpaces(t, val.pos), Append(acc, Pair(key.s, key.q, val.v)))

\* ... after an entry: a ',' and more entries, or the closing '}'
FlowAfterPair(t, nxt, all) ==
    CASE At(t, nxt) = "," -> ParseFlowPairs(t, SkipSpaces(t, nxt + 1), all)
      [] At(t, nxt) = "}" ->
             IF DistinctKeys(all) THEN Ok(Map(TRUE, all), nxt + 1) ELSE Fail
      [] OTHER -> Fail

ParseFlowMap(t, i) ==
    IF At(t, i) # "{" THEN Fail
    ELSE IF At(t, SkipSpaces(t, i + 1)) = "}"
         THEN Ok(Map(TRUE, <<>>), SkipSpaces(t, i + 1) + 1)
    ELSE ParseFlowPairs(t, SkipSpaces(t, i + 1), <<>>)

\* the indices of the line ends of a text, and one past its end
LineEnds(t) == {j \in 1..Len(t) : t[j] = "\n"} \cup {Len(t) + 1}

\* the lines of a text: what stands between two line ends
SplitLines(t) ==
    [n \in 1..Cardinality(LineEnds(t)) |->
        SubSeq(t,
               IF n = 1 THEN 1
               ELSE 1 + CHOOSE j \in LineEnds(t) :
                            Cardinality({k \in LineEnds(t) : k < j}) = n - 2,
               (CHOOSE j \in LineEnds(t) :
                    Cardinality({k \in LineEnds(t) : k < j}) = n - 1) - 1)]

\* the number of spaces a line starts with
Indent(l) == FindFrom(l, 1, {l[i] : i \in 1..Len(l)} \ {" "}) - 1

\* a line as [indent, text], the text without its indentation and trailing space
LineOf(l) == [indent |-> Indent(l), text |-> TrimRight(SubSeq(l, Indent(l) + 1, Len(l)))]

NotBlank(l) == l.text # <<>>

LinesOf(ls) == [i \in 1..Len(ls) |-> LineOf(ls[i])]

\* the non-blank lines of a text
BlockLines(t) == SelectSeq(LinesOf(SplitLines(t)), NotBlank)

\* where the ':' that ends a plain key stands in a line, 0 if nowhere
KeyEnd(l) ==
    FindFrom(l, 2, {":"}) * (IF At(l, FindFrom(l, 2, {":"})) = ":" THEN 1 ELSE 0)

\* the key of a block line: [ok, v |-> key scalar, pos |-> index of its ':']
ScanBlockKey(l) ==
    IF At(l, 1) = "\"" THEN
        IF /\ ScanQuoted(l, 1).ok
           /\ At(l, ScanQuoted(l, 1).pos) = ":"
           /\ At(l, ScanQuoted(l, 1).pos + 1) \in {"", " "}
        THEN ScanQuoted(l, 1) ELSE Fail
    ELSE
        IF KeyEnd(l) = 0 \/ At(l, KeyEnd(l) + 1) \notin {"", " "} \/ At(l, 1) = "{"
        THEN Fail
        ELSE Ok(Str(SubSeq(l, 1, KeyEnd(l) - 1), FALSE), KeyEnd(l))

\* r if it is a value that ends where the text ends
Whole(r, t) == IF r.ok /\ r.pos = Len(t) + 1 THEN r ELSE Fail

\* the value written on a block line after "key:"
ScanBlockValue(rest) ==
    CASE At(rest, 1) = "{" -> Whole(ParseFlowMap(rest, 1), rest)
      [] At(rest, 1) = "\"" -> Whole(ScanQuoted(rest, 1), rest)
      [] OTHER -> Ok(PlainNode(rest), Len(rest) + 1)

\* the value of a line that holds one, to be followed by line i
InlineValue(r, i) == IF r.ok THEN Ok(r.v, i) ELSE Fail

RECURSIVE ParseBlockPairs(_, _, _, _)
RECURSIVE BlockAfterKey(_, _, _, _, _, _)
RECURSIVE BlockAfterValue(_, _, _, _, _)

\* the entries of the block mapping at this indentation from line i on;
\* pos is the first line that is not part of it
ParseBlockPairs(ls, i, indent, acc) ==
    IF i > Len(ls) \/ ls[i].indent < indent THEN
        IF acc # <<>> /\ DistinctKeys(acc) THEN Ok(Map(FALSE, acc), i) ELSE Fail
    ELSE IF ls[i].indent > indent THEN Fail
    ELSE BlockAfterKey(ls, i, indent, acc, ScanBlockKey(ls[i].text), ls[i].text)

\* ... after the key of line i was read: the value on the line, the nested
\* mapping on the lines below it, or null
BlockAfterKey(ls, i, indent, acc, key, l) ==
    IF ~key.ok THEN Fail
    ELSE BlockAfterValue(ls, indent, acc, key.v,
            IF TrimLeft(SubSeq(l, key.pos + 1, Len(l))) # <<>> THEN
                InlineValue(ScanBlockValue(TrimLeft(SubSeq(l, key.pos + 1, Len(l)))), i + 1)
            ELSE IF i < Len(ls) /\ ls[i + 1].indent > indent THEN
                ParseBlockPairs(ls, i + 1, ls[i + 1].indent, <<>>)
            ELSE Ok(NullNode, i + 1))

\* ... after the value of an entry was read
BlockAfterValue(ls, indent, acc, key, val) ==
    IF ~val.ok THEN Fail
    ELSE ParseBlockPairs(ls, val.pos, indent, Append(acc, Pair(key.s, key.q, val.v)))

\* the root of a text in block style
ParseBlock(ls) == Whole(ParseBlockPairs(ls, 1, ls[1].indent, <<>>), ls)

\* the root of a text in flow style
ParseFlow(t, m) == [m EXCEPT !.ok = m.ok /\ SkipSpaces(t, m.pos) > Len(t)]

\* The document of a text: [ok, v], v the root mapping, or Nil for an empty
\* document.  A text that is not well formed, or whose root is not a mapping,
\* is an error.
YamlParse(t) ==
    IF SkipSpaces(t, 1) > Len(t) THEN Ok(Nil, 1)
    ELSE IF t[SkipSpaces(t, 1)] = "{" THEN ParseFlow(t, ParseFlowMap(t, SkipSpaces(t, 1)))
    ELSE ParseBlock(BlockLines(t))

\* ------------------------------------------------------------------------
\* Decoding and encoding, as doParseTunnelConfig uses them
\* ------------------------------------------------------------------------
\* hasKey on the probed document (a nil map has no key)
hasKey(m, key) ==
    m.kind = "map" /\ \E i \in 1..Len(m.pairs) : m.pairs[i].k = key

\* the node under a key of a mapping, Nil when the key is absent
Lookup(m, key) ==
    IF hasKey(m, key)
    THEN m.pairs[CHOOSE i \in 1..Len(m.pairs) : m.pairs[i].k = key].v
    ELSE Nil

\* a node decoded into a Go string field
DecodeString(v) ==
    CASE v.kind \in {"nil", "null"} -> [ok |-> TRUE, s |-> <<>>]
      [] v.kind = "str" -> [ok |-> TRUE, s |-> v.s]
      [] OTHER -> [ok |-> FALSE, s |-> <<>>]

\* the struct{Message, Details string} of two decoded fields
ErrorStruct(m, d) ==
    [ok |-> m.ok /\ d.ok, e |-> [kind |-> "error", Message |-> m.s, Details |-> d.s]]

\* a node decoded into the field Error *struct{Message, Details string}
DecodeError(v) ==
    CASE v.kind \in {"nil", "null"} -> [ok |-> TRUE, e |-> Nil]
      [] v.kind = "map" -> ErrorStruct(DecodeString(Lookup(v, KeyMessage)),
                                       DecodeString(Lookup(v, KeyDetails)))
      [] OTHER -> [ok |-> FALSE, e |-> Nil]

\* Mutant of MapOf: the error of the probe is not looked at.
MapOfIgnoringError(d) == [err |-> FALSE, value |-> IF d.ok THEN d.v ELSE Nil]

\* the map[string]any of a parsed document
MapOf(d) == [err |-> ~d.ok, value |-> IF d.ok THEN d.v ELSE Nil]

\* yaml.Unmarshal([]byte(input), &yamlValue), yamlValue a map[string]any
UnmarshalMap(t) == MapOf(YamlParse(t))

EmptyRequest == [Transport |-> Nil, Error |-> Nil]

\* the parseTunnelConfigRequest of a parsed document and its decoded error
RequestOf(d, e) ==
    IF d.ok /\ e.ok
    THEN [err |-> FALSE,
          value |-> [Transport |-> Lookup(d.v, KeyTransport), Error |-> e.e]]
    ELSE [err |-> TRUE, value |-> EmptyRequest]

DecodeRequest(d) == RequestOf(d, DecodeError(Lookup(d.v, KeyError)))

\* yaml.Unmarshal([]byte(input), &tunnelConfig), a parseTunnelConfigRequest
UnmarshalRequest(t) == DecodeRequest(YamlParse(t))

\* yaml.Marshal of an ast.Node: the node's text, in the node's own style, and a
\* line end ("null" for a nil node).  It returns no error for a node the reader
\* produced.
MarshalNode(node) ==
    [err |-> FALSE,
     bytes |-> (IF node.kind = "nil" THEN NullWord ELSE NodeText(node, TRUE)) \o <<"\n">>]

RECURSIVE JsonEscape(_)
\* a string's characters as encoding/json writes them between quotes
JsonEscape(t) ==
    IF t = <<>> THEN <<>>
    ELSE ( CASE Head(t) = "\"" -> <<"\\", "\"">>
             [] Head(t) = "\\" -> <<"\\", "\\">>
             [] Head(t) = "\n" -> <<"\\", "n">>
             [] Head(t) = "\t" -> <<"\\", "t">>
             [] Head(t) = "\r" -> <<"\\", "r">>
             [] OTHER -> <<Head(t)>> ) \o JsonEscape(Tail(t))

JsonFirstHop == <<"{", "\"", "f", "i", "r", "s", "t", "H", "o", "p", "\"", ":", "\"">>
JsonTransport ==
    <<"\"", ",", "\"", "t", "r", "a", "n", "s", "p", "o", "r", "t", "\"", ":", "\"">>
JsonEnd == <<"\"", "}">>

\* json.Marshal of a tunnelConfigJson: two string fields, in the order of the
\* struct; encoding/json returns no error for such a value.
JsonMarshal(r) ==
    [err |-> FALSE,
     bytes |-> JsonFirstHop \o JsonEscape(r.FirstHop) \o JsonTransport
               \o JsonEscape(r.Transport) \o JsonEnd]

\* ---- reading a serialized tunnelConfigJson back (config.ts side) ----
\* index of the quote that closes the JSON string starting at i
RECURSIVE JsonStringEnd(_, _)
JsonStringEnd(t, i) ==
    IF i > Len(t) \/ t[i] = "\"" THEN i
    ELSE IF t[i] = "\\" THEN JsonStringEnd(t, i + 2)
    ELSE JsonStringEnd(t, i + 1)

RECURSIVE JsonUnescape(_)
JsonUnescape(t) ==
    IF t = <<>> THEN <<>>
    ELSE IF Head(t) = "\\" /\ Len(t) >= 2 THEN
        ( CASE t[2] = "n" -> <<"\n">>
            [] t[2] = "t" -> <<"\t">>
            [] t[2] = "r" -> <<"\r">>
            [] OTHER -> <<t[2]>> ) \o JsonUnescape(SubSeq(t, 3, Len(t)))
    ELSE <<Head(t)>> \o JsonUnescape(Tail(t))

\* the tunnelConfigJson of a text whose first string ends at b and whose
\* second string ends at d
JsonFields(t, b, d) ==
    IF /\ HasPrefix(t, JsonFirstHop)
       /\ SubSeq(t, b, b + Len(JsonTransport) - 1) = JsonTransport
       /\ SubSeq(t, d, Len(t)) = JsonEnd
    THEN [ok |-> TRUE,
          FirstHop |-> JsonUnescape(SubSeq(t, Len(JsonFirstHop) + 1, b - 1)),
          Transport |-> JsonUnescape(SubSeq(t, b + Len(JsonTransport), d - 1))]
    ELSE [ok |-> FALSE, FirstHop |-> <<>>, Transport |-> <<>>]

JsonSecond(t, b) == JsonFields(t, b, JsonStringEnd(t, b + Len(JsonTransport)))

\* the tunnelConfigJson a text encodes; ok is FALSE if it encodes none
JsonParse(t) == JsonSecond(t, JsonStringEnd(t, Len(JsonFirstHop) + 1))

\* fmt.Sprintf("failed to parse: %s", err); the parser's own words are not modelled
ParseErrText == <<"e", "r", "r">>
FailedToParse ==
    <<"f", "a", "i", "l", "e", "d", " ", "t", "o", " ", "p", "a", "r", "s", "e", ":", " ">>
    \o ParseErrText
FailedToNormalize ==
    <<"f", "a", "i", "l", "e", "d", " ", "t", "o", " ", "n", "o", "r", "m", "a", "l",
      "i", "z", "e", " ", "c", "o", "n", "f", "i", "g", ":", " ">> \o ParseErrText
FailedToSerialize ==
    <<"f", "a", "i", "l", "e", "d", " ", "t", "o", " ", "s", "e", "r", "i", "a", "l",
      "i", "z", "e", " ", "J", "S", "O", "N", " ", "r", "e", "s", "p", "o", "n", "s",
      "e", ":", " ">> \o ParseErrText

PlatformError(code, message, details) ==
    [kind |-> "PlatformError", Code |-> code, Message |-> message, Details |-> details]

\* Mutant of ValueResult: the serialized response is not put in the result.
ValueResultDropped(v) == [kind |-> "result", Value |-> <<>>, Error |-> Nil]

\* &InvokeMethodResult{Error: e} and &InvokeMethodResult{Value: v}
ErrorResult(e) == [kind |-> "result", Value |-> <<>>, Error |-> e]
ValueResult(v) == [kind |-> "result", Value |-> v, Error |-> Nil]

\* ------------------------------------------------------------------------
\* Inputs: the texts a caller may pass to doParseTunnelConfig
\* ------------------------------------------------------------------------
WHost == <<"h", "o", "s", "t">>
WPort == <<"p", "o", "r", "t">>
WX == <<"x">>
WOne == <<"1">>
WMsg == <<"q">>
WDet == <<"d">>
WOops == <<"o", "o", "p", "s">>

FlowHost == Map(TRUE, <<Pair(WHost, TRUE, Str(WX, TRUE))>>)

\* values of the top-level key transport; Nil: the key is absent
Transports ==
    { Nil,
      NullNode,
      Str(WX, FALSE),
      Map(FALSE, <<Pair(WHost, FALSE, Str(WX, FALSE))>>),
      Map(TRUE, <<Pair(WHost, TRUE, Str(WX, TRUE)), Pair(WPort, TRUE, Str(WOne, FALSE))>>) }

\* values of the top-level key error; Nil: the key is absent
Errors ==
    { Nil,
      NullNode,
      Map(FALSE, <<Pair(KeyMessage, FALSE, Str(WMsg, FALSE))>>),
      Map(FALSE, <<Pair(KeyMessage, FALSE, Str(WMsg, FALSE)),
                   Pair(KeyDetails, FALSE, Str(WDet, FALSE))>>),
      Map(FALSE, <<Pair(KeyMessage, FALSE, Str(<<>>, TRUE))>>),
      Map(FALSE, <<Pair(KeyDetails, FALSE, Str(WDet, FALSE))>>),
      Map(TRUE, <<>>),
      Str(WOops, FALSE),
      Map(FALSE, <<Pair(KeyMessage, FALSE, Str(WMsg, FALSE)),
                   Pair(KeyDetails, FALSE, FlowHost)>>),
      Map(FALSE, <<Pair(KeyMessage, FALSE, FlowHost)>>) }

\* the i-th surrounding key of a document
ExtraPair(i) ==
    CASE i = 1 -> Pair(WHost, FALSE, Str(WX, FALSE))
      [] i = 2 -> Pair(WPort, FALSE, Str(WOne, FALSE))
      [] OTHER -> Pair([j \in 1..i |-> "k"], FALSE, NullNode)

RECURSIVE ToFlow(_)
\* a node with every mapping in flow style and every key quoted, as in JSON
ToFlow(v) ==
    IF v.kind # "map" THEN v
    ELSE Map(TRUE, [i \in 1..Len(v.pairs) |->
                      Pair(v.pairs[i].k, TRUE, ToFlow(v.pairs[i].v))])

\* the root mapping of a document
Document(t, e, n, front, errFirst, flow) ==
    LET tp == IF t = Nil THEN <<>> ELSE <<Pair(KeyTransport, FALSE, t)>>
        ep == IF e = Nil THEN <<>> ELSE <<Pair(KeyError, FALSE, e)>>
        main == IF errFirst THEN ep \o tp ELSE tp \o ep
        extra == [i \in 1..n |-> ExtraPair(i)]
        root == Map(FALSE, IF front THEN extra \o main ELSE main \o extra)
    IN  IF flow THEN ToFlow(root) ELSE root

LeadPad(n) == [i \in 1..n |-> IF i % 2 = 1 THEN " " ELSE "\n"]
TrailPad(n) == [i \in 1..n |-> IF i % 2 = 1 THEN "\n" ELSE "\t"]

\* an input: the text core between n characters of whitespace on either side;
\* root is the document the text was written from (Nil if from none)
Input(kind, root, core, n) ==
    [kind |-> kind, root |-> root, core |-> core,
     text |-> LeadPad(n) \o core \o TrailPad(n)]

\* a text without its last character
Cut(text) == SubSeq(text, 1, Len(text) - 1)

\* well-formed documents in block and flow (JSON) style
DocInputs ==
    { Input("doc", Document(t, e, n, front, errFirst, flow),
            NodeText(Document(t, e, n, front, errFirst, flow), sp), pad) :
        t \in Transports, e \in Errors, n \in 0..MaxExtra, pad \in 0..MaxPad,
        front \in BOOLEAN, errFirst \in BOOLEAN, flow \in BOOLEAN, sp \in BOOLEAN }

\* a flow document that lost its closing brace, and texts whose root is a scalar
BadInputs ==
    { Input("bad", Nil, Cut(NodeText(Document(t, e, 0, FALSE, FALSE, TRUE), FALSE)), pad) :
        t \in Transports, e \in Errors, pad \in 0..MaxPad }
    \cup { Input("bad", Nil, text, pad) :
             text \in { <<"h", "i">>, <<"S", "S", ":", "/", "/", "x">>,
                        <<"s", "s", ":", "/", "x">> },
             pad \in 0..MaxPad }

\* what may follow the prefix of an ss:// link, documents included
UrlBodies ==
    { <<>>, WX, <<"{">> }
    \cup { <<"x", "\n">> \o NodeText(Document(Nil, e, 0, FALSE, FALSE, FALSE), TRUE) :
             e \in Errors \ {Nil} }
    \cup { NodeText(Document(t, Nil, 0, FALSE, FALSE, TRUE), FALSE) : t \in Transports }

UrlInputs ==
    { Input("url", Nil, SsPrefix \o body, pad) :
        body \in UrlBodies, pad \in 0..MaxPad }

Inputs == DocInputs \cup BadInputs \cup UrlInputs

\* ------------------------------------------------------------------------
\* The collaborator NewClient
\* ------------------------------------------------------------------------
Hop(n) == [i \in 1..n |-> "h"]
Hops == {Hop(n) : n \in 0..MaxHop}

\* NewClient is free in the code of the PlatformError it fails with: the codes
\* doParseTunnelConfig uses itself, and one it does not use
CollaboratorCodes == {InvalidConfig, InternalError, ProviderError, "ProxyServerUnreachable"}

CollaboratorError(c) ==
    PlatformError(c, <<"n", "c">>,
                  IF c = InvalidConfig THEN [cause |-> <<"y">>] ELSE Nil)

NoResult == [Client |-> Nil, Error |-> Nil]

\* what NewClient may return: a client with its two first hops, or an error
NewClientResults ==
    { [Client |-> [kind |-> "client", sd |-> s, pl |-> p], Error |-> Nil] :
        s \in Hops, p \in Hops }
    \cup { [Client |-> Nil, Error |-> CollaboratorError(c)] : c \in CollaboratorCodes }

\* ------------------------------------------------------------------------
\* State
\* ------------------------------------------------------------------------
VARIABLES
    pc,                    \* position in doParseTunnelConfig
    given,                 \* the caller's input, with the document it was written from
    input,                 \* the local variable input
    yamlValue,             \* the probed document
    tunnelConfig,          \* the typed parseTunnelConfigRequest
    transportConfigText,   \* the local variable transportConfigText
    result,                \* what NewClient returned
    calls,                 \* the texts NewClient was called with, in order
    raised,                \* where the returned error was raised
    ret                    \* the returned InvokeMethodResult, Nil until the return

vars == <<pc, given, input, yamlValue, tunnelConfig, transportConfigText, result,
          calls, raised, ret>>

Init ==
    /\ pc = "start"
    /\ given \in Inputs
    /\ input = given.text
    /\ yamlValue = Nil
    /\ tunnelConfig = EmptyRequest
    /\ transportConfigText = <<>>
    /\ result = NoResult
    /\ calls = <<>>
    /\ raised = "none"
    /\ ret = Nil

\* return r; where tells which statement raised its error
Return(r, where) ==
    /\ ret' = r
    /\ raised' = where
    /\ pc' = "done"

\* ------------------------------------------------------------------------
\* doParseTunnelConfig, statement by statement
\* ------------------------------------------------------------------------
\* input = strings.TrimSpace(input)
Trim ==
    /\ pc = "start"
    /\ input' = TrimSpace(input)
    /\ pc' = "detect"
    /\ UNCHANGED <<given, yamlValue, tunnelConfig, transportConfigText, result, calls,
                   raised, ret>>

\* the condition of the first if: the input is an ss:// link
IsLegacyURL(t) == HasPrefix(t, SsPrefix)

\* Mutant of LegacyURL: the scheme is taken off the link.
LegacyURLStripsScheme ==
    /\ pc = "detect"
    /\ IsLegacyURL(input)
    /\ transportConfigText' = SubSeq(input, Len(SsPrefix) + 1, Len(input))
    /\ pc' = "newclient"
    /\ UNCHANGED <<given, input, yamlValue, tunnelConfig, result, calls, raised, ret>>

\* Legacy URL format. Input is the transport config.
LegacyURL ==
    /\ pc = "detect"
    /\ IsLegacyURL(input)
    /\ transportConfigText' = input
    /\ pc' = "newclient"
    /\ UNCHANGED <<given, input, yamlValue, tunnelConfig, result, calls, raised, ret>>

\* the probe: yaml.Unmarshal into a map[string]any
Probe ==
    /\ pc = "detect"
    /\ ~IsLegacyURL(input)
    /\ \E u \in {UnmarshalMap(input)} :
       IF u.err
       THEN /\ Return(ErrorResult(PlatformError(InvalidConfig, FailedToParse, Nil)), "probe")
            /\ UNCHANGED yamlValue
       ELSE /\ yamlValue' = u.value
            /\ pc' = "probed"
            /\ UNCHANGED <<raised, ret>>
    /\ UNCHANGED <<given, input, tunnelConfig, transportConfigText, result, calls>>

\* the condition of the second if: the document is in the new format
IsNewFormat(m) == hasKey(m, KeyTransport) \/ hasKey(m, KeyError)

\* New format. Parse as tunnel config
ParseRequest ==
    /\ pc = "probed"
    /\ IsNewFormat(yamlValue)
    /\ \E u \in {UnmarshalRequest(input)} :
       IF u.err
       THEN /\ Return(ErrorResult(PlatformError(InvalidConfig, FailedToParse, Nil)), "typed")
            /\ UNCHANGED tunnelConfig
       ELSE /\ tunnelConfig' = u.value
            /\ pc' = "typed"
            /\ UNCHANGED <<raised, ret>>
    /\ UNCHANGED <<given, input, yamlValue, transportConfigText, result, calls>>

\* Mutant of LegacyJSON: the probed document is written out again.
LegacyJSONReserialized ==
    /\ pc = "probed"
    /\ ~IsNewFormat(yamlValue)
    /\ transportConfigText' = MarshalNode(yamlValue).bytes
    /\ pc' = "newclient"
    /\ UNCHANGED <<given, input, yamlValue, tunnelConfig, result, calls, raised, ret>>

\* Legacy JSON format. Input is the transport config.
LegacyJSON ==
    /\ pc = "probed"
    /\ ~IsNewFormat(yamlValue)
    /\ transportConfigText' = input
    /\ pc' = "newclient"
    /\ UNCHANGED <<given, input, yamlValue, tunnelConfig, result, calls, raised, ret>>

\* the PlatformError built from the document's error block
ProviderErrorOf(e) ==
    PlatformError(ProviderError, e.Message,
                  IF e.Details # <<>> THEN [details |-> e.Details] ELSE Nil)

\* Mutant of HasProviderError: the message is tested, not the presence of the block.
TruthyProviderError(cfg) == cfg.Error # Nil /\ cfg.Error.Message # <<>>

\* the condition of the third if: the document reports a provider error
HasProviderError(cfg) == cfg.Error # Nil

\* Process provider error, if present.
ReturnProviderError ==
    /\ pc = "typed"
    /\ HasProviderError(tunnelConfig)
    /\ Return(ErrorResult(ProviderErrorOf(tunnelConfig.Error)), "provider")
    /\ UNCHANGED <<given, input, yamlValue, tunnelConfig, transportConfigText, result,
                   calls>>

\* Mutant of ExtractTransport: the whole document is written out, not the subtree.
ExtractWholeDocument ==
    /\ pc = "typed"
    /\ ~HasProviderError(tunnelConfig)
    /\ transportConfigText' = MarshalNode(yamlValue).bytes
    /\ pc' = "newclient"
    /\ UNCHANGED <<given, input, yamlValue, tunnelConfig, result, calls, raised, ret>>

\* Extract transport config as an opaque string.
ExtractTransport ==
    /\ pc = "typed"
    /\ ~HasProviderError(tunnelConfig)
    /\ \E m \in {MarshalNode(tunnelConfig.Transport)} :
       IF m.err
       THEN /\ Return(ErrorResult(PlatformError(InvalidConfig, FailedToNormalize, Nil)),
                      "normalize")
            /\ UNCHANGED transportConfigText
       ELSE /\ transportConfigText' = m.bytes
            /\ pc' = "newclient"
            /\ UNCHANGED <<raised, ret>>
    /\ UNCHANGED <<given, input, yamlValue, tunnelConfig, result, calls>>

\* the text NewClient is called with
ClientArgument == transportConfigText

\* Mutant of CallNewClient: a failed call is tried once more.
CallNewClientRetrying ==
    /\ pc = "newclient"
    /\ \E r \in NewClientResults :
          /\ result' = r
          /\ calls' = IF r.Error # Nil
                      THEN Append(Append(calls, ClientArgument), ClientArgument)
                      ELSE Append(calls, ClientArgument)
    /\ pc' = "called"
    /\ UNCHANGED <<given, input, yamlValue, tunnelConfig, transportConfigText, raised,
                   ret>>

\* result := NewClient(transportConfigText)
CallNewClient ==
    /\ pc = "newclient"
    /\ \E r \in NewClientResults : result' = r
    /\ calls' = Append(calls, ClientArgument)
    /\ pc' = "called"
    /\ UNCHANGED <<given, input, yamlValue, tunnelConfig, transportConfigText, raised,
                   ret>>

\* Mutant of PassedError: the error of NewClient is wrapped in an InternalError.
WrappedError(r) == ErrorResult(PlatformError(InternalError, r.Error.Message, Nil))

\* the result returned when NewClient failed
PassedError(r) == ErrorResult(r.Error)

\* if result.Error != nil { return &InvokeMethodResult{Error: result.Error} }
ReturnClientError ==
    /\ pc = "called"
    /\ result.Error # Nil
    /\ Return(PassedError(result), "collaborator")
    /\ UNCHANGED <<given, input, yamlValue, tunnelConfig, transportConfigText, result,
                   calls>>

\* Mutant of Response: the first hop of the stream path is always reported.
ResponseStreamHop(text, streamFirstHop, packetFirstHop) ==
    [Transport |-> text, FirstHop |-> streamFirstHop]

\* Mutant of Response: the echoed text is trimmed.
ResponseTrimmed(text, streamFirstHop, packetFirstHop) ==
    [Transport |-> TrimSpace(text),
     FirstHop |-> IF streamFirstHop = packetFirstHop THEN streamFirstHop ELSE <<>>]

\* the tunnelConfigJson of a text and the two first hops
Response(text, streamFirstHop, packetFirstHop) ==
    [Transport |-> text,
     FirstHop |-> IF streamFirstHop = packetFirstHop THEN streamFirstHop ELSE <<>>]

\* the response is built, serialized and returned
Respond ==
    /\ pc = "called"
    /\ result.Error = Nil
    /\ \E j \in {JsonMarshal(Response(transportConfigText, result.Client.sd,
                                         result.Client.pl))} :
           IF j.err
           THEN Return(ErrorResult(PlatformError(InternalError, FailedToSerialize, Nil)),
                       "serialize")
           ELSE Return(ValueResult(j.bytes), "none")
    /\ UNCHANGED <<given, input, yamlValue, tunnelConfig, transportConfigText, result,
                   calls>>

Next ==
    \/ Trim
    \/ LegacyURL
    \/ Probe
    \/ ParseRequest
    \/ LegacyJSON
    \/ ReturnProviderError
    \/ ExtractTransport
    \/ CallNewClient
    \/ ReturnClientError
    \/ Respond

Spec == Init /\ [][Next]_vars

\* ------------------------------------------------------------------------
\* Properties
\* ------------------------------------------------------------------------
Done == pc = "done"
Returned == pc = "done" /\ ret # Nil
Succeeded == Returned /\ ret.Error = Nil

\* the input was written from a document
FromDocument == given.kind = "doc"
GivenTransport == Lookup(given.root, KeyTransport)
GivenError == Lookup(given.root, KeyError)
\* the document has a top-level transport or error key
Structured == FromDocument /\ (GivenTransport # Nil \/ GivenError # Nil)
\* a node that is absent, null or a scalar
IsScalar(v) == v.kind \in {"nil", "null", "str"}
\* the document has an error block with a message field
HasErrorMessage ==
    FromDocument /\ GivenError.kind = "map" /\ hasKey(GivenError, KeyMessage)
\* that message field, as a string
GivenMessage == DecodeString(Lookup(GivenError, KeyMessage)).s
\* the error block's message and details are scalars
ErrorWellTyped ==
    IsScalar(Lookup(GivenError, KeyMessage)) /\ IsScalar(Lookup(GivenError, KeyDetails))
\* the text of a node written on its own, independent of any document around it
Canonical(node) ==
    (IF node = Nil THEN NullWord ELSE NodeText(node, TRUE)) \o <<"\n">>

\* C1: the returned InvokeMethodResult has exactly one of a non-empty Value
\* and a non-nil Error, whatever the input and whatever NewClient does.
C1_ExactlyOneOfValueOrError ==
    Done => /\ ret # Nil
            /\ (ret.Value # <<>>) # (ret.Error # Nil)
C1_Witness ==
    /\ Succeeded
    /\ ret.Value # <<>>
    /\ calls # <<>>

\* C2: for an input that starts with ss:// once trimmed, the text handed to
\* NewClient is the input without its surrounding whitespace, and the input is
\* neither probed nor parsed, whatever follows the prefix.
C2_LegacyURLVerbatim ==
    (given.kind = "url" /\ pc \in {"newclient", "called", "done"}) =>
        /\ transportConfigText = given.core
        /\ pc # "newclient" => calls = <<given.core>>
        /\ yamlValue = Nil
        /\ tunnelConfig = EmptyRequest
        /\ raised \in {"none", "collaborator"}
C2_Witness ==
    /\ Done
    /\ given.kind = "url"
    /\ given.text # given.core
    /\ calls = <<given.core>>
    /\ hasKey(YamlParse(SubSeq(given.core, Len(SsPrefix) + 1, Len(given.core))).v,
              KeyTransport)

\* C3: for a document with neither a top-level transport key nor a top-level
\* error key, the text handed to NewClient is the trimmed input itself, not
\* the probed document written out again.
C3_LegacyJSONVerbatim ==
    (FromDocument /\ ~Structured /\ pc \in {"called", "done"}) =>
        calls = <<given.core>>
C3_Witness ==
    /\ Done
    /\ FromDocument /\ ~Structured
    /\ given.text # given.core
    /\ calls = <<given.core>>
    /\ yamlValue # Nil
    /\ MarshalNode(yamlValue).bytes # given.core
    /\ TrimSpace(MarshalNode(yamlValue).bytes) # given.core

\* C4 as stated: every document with an error.message field yields a
\* ProviderError whose message is that field, and never reaches NewClient.
C4_AnyErrorMessageIsProviderError ==
    (Done /\ HasErrorMessage) =>
        /\ ret.Error # Nil
        /\ ret.Error.Code = ProviderError
        /\ ret.Error.Message = GivenMessage
        /\ calls = <<>>

\* C4, amended: every document with an error.message field whose message and
\* details (where present) are scalars yields a ProviderError whose message
\* is that field, the empty message included; a transport next to the error
\* is ignored and NewClient is never called.
C4_WellTypedErrorIsProviderError ==
    (Done /\ HasErrorMessage /\ ErrorWellTyped) =>
        /\ ret.Value = <<>>
        /\ ret.Error # Nil
        /\ ret.Error.Code = ProviderError
        /\ ret.Error.Message = GivenMessage
        /\ calls = <<>>
        /\ transportConfigText = <<>>
C4_Witness ==
    /\ Done
    /\ HasErrorMessage /\ ErrorWellTyped
    /\ GivenMessage = <<>>
    /\ GivenTransport.kind = "map"
    /\ ret.Error.Code = ProviderError

\* C5: a text that is not well formed, and a document that does not fit the
\* typed request, yield an InvalidConfig error raised by the parse, never a
\* ProviderError, and never reach NewClient.
C5_MalformedIsInvalidConfig ==
    (Done /\ (given.kind = "bad" \/ (FromDocument /\ GivenError # Nil /\
                                     (GivenError.kind = "str" \/ ~ErrorWellTyped)))) =>
        /\ ret.Value = <<>>
        /\ ret.Error # Nil
        /\ ret.Error.Code = InvalidConfig
        /\ raised = (IF given.kind = "bad" THEN "probe" ELSE "typed")
        /\ calls = <<>>
C5_Witness ==
    /\ Done
    /\ given.kind = "bad"
    /\ given.core = Cut(NodeText(Document(Nil, Map(FALSE, <<Pair(KeyMessage, FALSE,
                              Str(WMsg, FALSE))>>), 0, FALSE, FALSE, TRUE), FALSE))
    /\ ret.Error.Code = InvalidConfig
C5_TypedWitness ==
    /\ Done
    /\ FromDocument /\ GivenError.kind = "str"
    /\ raised = "typed"

\* C6: in a successful result firstHop is the common value of the two first
\* hops NewClient reported if they are equal and empty if they differ.
C6_FirstHopReconciled ==
    Succeeded =>
        /\ JsonParse(ret.Value).ok
        /\ result.Client.sd = result.Client.pl =>
               JsonParse(ret.Value).FirstHop = result.Client.sd
        /\ result.Client.sd # result.Client.pl => JsonParse(ret.Value).FirstHop = <<>>
        /\ JsonParse(ret.Value).FirstHop \in {result.Client.sd, result.Client.pl, <<>>}
C6_Witness ==
    /\ Succeeded
    /\ result.Client.sd # <<>>
    /\ result.Client.sd = result.Client.pl
    /\ JsonParse(ret.Value).FirstHop = result.Client.sd
C6_DifferWitness ==
    /\ Succeeded
    /\ result.Client.sd # result.Client.pl
    /\ JsonParse(ret.Value).FirstHop = <<>>

\* C7: when NewClient fails, the result carries NewClient's PlatformError as
\* it is (code, message, details) and no Value.
C7_CollaboratorErrorPassedThrough ==
    (Done /\ result.Error # Nil) =>
        /\ ret.Error = result.Error
        /\ ret.Value = <<>>
C7_Witness ==
    /\ Done
    /\ result.Error # Nil
    /\ result.Error.Details # Nil
    /\ Structured
    /\ ret.Error = result.Error

\* C8: for a structured document whose error is absent or null, the text
\* handed to NewClient is the transport subtree written on its own; it
\* depends on nothing else in the document.
C8_TransportSubtreeAlone ==
    (Structured /\ GivenError.kind \in {"nil", "null"} /\ pc \in {"called", "done"}) =>
        calls = <<Canonical(GivenTransport)>>
C8_Witness ==
    /\ Done
    /\ Structured /\ GivenError.kind = "nil"
    /\ GivenTransport.kind = "map"
    /\ Len(given.root.pairs) > 1
    /\ given.root.pairs[1].k # KeyTransport
    /\ calls = <<Canonical(GivenTransport)>>

\* C9: in a successful result the transport field is the very text that was
\* handed to NewClient in this call.
C9_TransportEchoed ==
    Succeeded =>
        /\ Len(calls) = 1
        /\ JsonParse(ret.Value).ok
        /\ JsonParse(ret.Value).Transport = calls[1]
C9_Witness ==
    /\ Succeeded
    /\ Structured
    /\ GivenTransport.kind = "map"
    /\ JsonParse(ret.Value).Transport = calls[1]
    /\ calls[1] # given.core
C9_URLWitness ==
    /\ Succeeded
    /\ given.kind = "url"
    /\ JsonParse(ret.Value).Transport = given.core

\* C10 as stated: NewClient is called at most once and only after detection
\* and interpretation passed; a locally raised InvalidConfig and every
\* ProviderError result come without a call, and an InternalError result
\* comes only after NewClient succeeded.
C10_ErrorCodesTellTheStage ==
    /\ Len(calls) <= 1
    /\ calls # <<>> => pc \in {"called", "done"}
    /\ (Done /\ raised \in {"probe", "typed", "normalize"}) => calls = <<>>
    /\ (Returned /\ ret.Error # Nil /\ ret.Error.Code = ProviderError) => calls = <<>>
    /\ (Returned /\ ret.Error # Nil /\ ret.Error.Code = InternalError) =>
           (calls # <<>> /\ result.Error = Nil)

\* C10, amended: NewClient is called at most once and only after detection
\* and interpretation passed without error; every InvalidConfig and
\* ProviderError raised by doParseTunnelConfig itself is returned without a
\* call, an InternalError raised by it comes only after NewClient succeeded,
\* and nothing runs after the return.  (An error of NewClient is returned
\* after the call whatever its code, InternalError and ProviderError included.)
C10_LocalErrorsTellTheStage ==
    /\ Len(calls) <= 1
    /\ calls # <<>> => pc \in {"called", "done"}
    /\ pc = "called" => (ret = Nil /\ raised = "none")
    /\ (Done /\ raised \in {"probe", "typed", "provider", "normalize"}) =>
           (calls = <<>> /\ result = NoResult)
    /\ (Done /\ raised = "serialize") => (Len(calls) = 1 /\ result.Error = Nil)
    /\ (Done /\ raised = "collaborator") => (Len(calls) = 1 /\ result.Error # Nil)
    /\ Done => ~ENABLED Next
C10_Witness ==
    /\ Done
    /\ raised = "provider"
    /\ calls = <<>>
    /\ GivenTransport # Nil
C10_CollaboratorWitness ==
    /\ Done
    /\ raised = "collaborator"
    /\ ret.Error.Code = InternalError

====
